---- MODULE Spec2Model ----
(***************************************************************************)
(* Model of the cosdata Node SDK:                                          *)
(*   Transaction (src/src/client.test.ts lines 319-492: transaction.ts)    *)
(*   Index.createTransaction / Index.transaction (src/unnamed/part_002)    *)
(*   Client login and headers (src/src/client.test.ts lines 74-318) with   *)
(*   the requests of Collection (src/src/collection.ts) and Index          *)
(* Every HTTP round trip is two steps: the request is appended to the log  *)
(* when it is posted, and the code after the await runs when the response  *)
(* arrives.  The server and the user callback are the environment.         *)
(*   Spec        one call chain using Transaction and Index.transaction    *)
(*   SpecClient  one call chain using Client, Collection and Index         *)
(*   SpecRace    two call chains sharing one Transaction                   *)
(***************************************************************************)
EXTENDS Integers, Sequences, FiniteSets, TLC

\* ------------------------------------------------------------------ bounds
MaxBatches == 2     \* inputs of up to MaxBatches batches
MaxFailures == 1    \* responses with a status that is not a success
MaxCalls == 3       \* calls made by user code: upsert, commit, abort, transaction

\* --------------------------------------------------------- program constants
batchSize == 200

Null == 0           \* transactionId: string | null = null
Own == 1            \* the Transaction object the caller made for its own use

\* one call chain: a Transaction is for the exclusive use of one caller
Callers == {1}

\* HTTP statuses the server may answer with
Statuses == {200, 201, 204, 500}

\* mutant: upsertBatch does not look at the status
UpsertOkAny(status) == TRUE

\* mutant: create does not look at the status
CreateOkAny(status) == TRUE

\* the status checks of the four requests
CreateOk(status) == status = 200 \/ status = 201
UpsertOk(status) == status = 200 \/ status = 204
CommitOk(status) == status = 200 \/ status = 204
AbortOk(status) == status = 200 \/ status = 204

\* error messages thrown by Transaction
ErrNoActiveCommit == "No active transaction to commit"
ErrNoActiveAbort == "No active transaction to abort"
ErrCreate == "Failed to create transaction"
ErrUpsert == "Failed to upsert vectors"
ErrCommit == "Failed to commit transaction"
ErrAbort == "Failed to abort transaction"
\* the error a user callback throws by itself
ErrCallback == "callback error"

\* what a callback may return, and the response.data of commit / abort
CbValues == {"r1", "r2"}
CommitData == "commit data"
AbortData == "abort data"
This == "this"

\* input lengths around the batch boundaries: 0, 1, 200, 201, ...
Lengths == {k * batchSize + d : k \in 0..(MaxBatches - 1), d \in {0, 1}}
\* the input of length n: vectors with ids 1..n
Vectors(n) == [j \in 1..n |-> j]

Min(a, b) == IF a < b THEN a ELSE b

\* Array.prototype.slice(from, to) for 0 <= from <= to, 0-based, end exclusive
slice(s, from, to) == SubSeq(s, from + 1, Min(to, Len(s)))

\* private token: string = ''
NoToken == ""

VARIABLES
  transactionId,  \* transactionId[t]: the field of the t-th Transaction constructed
  serverIds,      \* server: how many transaction ids it has issued
  log,            \* history: the requests posted and responses received, in order
  calls,          \* history: calls user code has made
  invs,           \* history: Transaction method invocations started
  pc,             \* pc[c]: where caller c is
  ctx,            \* ctx[c]: who awaits the Transaction method in progress
  txn,            \* txn[c]: the Transaction object caller c works on: its own, or
                  \* inside Index.transaction the one created there (const txn)
  vectors,        \* vectors[c]: argument of the upsert in progress
  i,              \* i[c]: loop variable of upsert
  batch,          \* batch[c]: const batch of upsert
  result,         \* result[c]: const result of Index.transaction
  error,          \* error[c]: the catch parameter of Index.transaction
  settled,        \* settled[c]: how the awaited Transaction method settled
  outcome,        \* outcome[c]: how the last top-level call settled
  cb,             \* history: cb[c]: how the callback of Index.transaction settled
  call,           \* history: call[c]: number of the top-level call in progress
  inv,            \* history: inv[c]: number of the method invocation in progress
  cbUpserts,      \* cbUpserts[c]: upsert calls made by the callback in progress
  op,             \* history: op[c]: the top-level call in progress
  token,          \* Client.token: the access token cached, '' when there is none
  sessions,       \* server: how many sessions (access tokens) it has issued
  handles,        \* the Collection / Index objects user code holds
  denseIndex      \* server: the collection has a dense index

upsertVars == <<vectors, i, batch>>
helperVars == <<result, error, cb, cbUpserts>>
callVars == <<calls, call, op, outcome>>
clientVars == <<token, sessions, handles, denseIndex>>
vars == <<transactionId, serverIds, log, calls, invs, pc, ctx, txn, vectors, i,
          batch, result, error, settled, outcome, cb, call, inv, cbUpserts, op,
          token, sessions, handles, denseIndex>>

None == [kind |-> "none", val |-> "none"]
Returned(v) == [kind |-> "returned", val |-> v]
Threw(e) == [kind |-> "threw", val |-> e]
NoOutcome == [op |-> "none", call |-> 0, kind |-> "none", val |-> "none"]

\* log entries: a request posted (its path names the transaction id, its body
\* the batch) and the response to it as the code judged it
Req(c, k, o, id, b) ==
  [type |-> "req", op |-> o, txn |-> txn[c], id |-> id, batch |-> b, ok |-> TRUE,
   call |-> call[c], inv |-> k, caller |-> c]
Resp(c, o, id, ok) ==
  [type |-> "resp", op |-> o, txn |-> txn[c], id |-> id, batch |-> << >>, ok |-> ok,
   call |-> call[c], inv |-> inv[c], caller |-> c]

Init ==
  /\ transactionId = <<Null>>
  /\ serverIds = 0
  /\ log = << >>
  /\ calls = 0
  /\ invs = 0
  /\ pc = [c \in Callers |-> "idle"]
  /\ ctx = [c \in Callers |-> "manual"]
  /\ txn = [c \in Callers |-> Own]
  /\ vectors = [c \in Callers |-> << >>]
  /\ i = [c \in Callers |-> 0]
  /\ batch = [c \in Callers |-> << >>]
  /\ result = [c \in Callers |-> "none"]
  /\ error = [c \in Callers |-> "none"]
  /\ settled = [c \in Callers |-> None]
  /\ outcome = [c \in Callers |-> NoOutcome]
  /\ cb = [c \in Callers |-> None]
  /\ call = [c \in Callers |-> 0]
  /\ inv = [c \in Callers |-> 0]
  /\ cbUpserts = [c \in Callers |-> 0]
  /\ op = [c \in Callers |-> "none"]
  /\ token = NoToken
  /\ sessions = 0
  /\ handles = {}
  /\ denseIndex = FALSE

\* ----------------------------------------------------------- Transaction
\* the request in flight of caller c: the last one it posted
InFlight(c) ==
  LET ks == {k \in 1..Len(log) : log[k].type = "req" /\ log[k].caller = c}
  IN log[CHOOSE k \in ks : \A m \in ks : m <= k]

\* server: the statuses with which it answers a request it has carried out
\* (create: 200, 201 with the new id; upsert, commit, abort: 200, 204)
Succeeded(o, status) ==
  IF o = "create" THEN status \in {200, 201} ELSE status \in {200, 204}

\* server: the statuses it may answer the next request with
Failures == Cardinality({k \in 1..Len(log) : log[k].type = "resp" /\ ~log[k].ok})
Answers(o) == {st \in Statuses : Succeeded(o, st) \/ Failures < MaxFailures}

\* server: response.data.transaction_id of the answer to a create request
NewId(status) == IF Succeeded("create", status) THEN serverIds + 1 ELSE Null

\* user code may make another call
MayCall == calls < MaxCalls

\* a Transaction method invocation starts: it gets the next invocation number
Invoke(c) ==
  /\ invs' = invs + 1
  /\ inv' = [inv EXCEPT ![c] = invs + 1]

\* the promise of the method in progress settles
Settle(c, s) ==
  /\ settled' = [settled EXCEPT ![c] = s]
  /\ pc' = [pc EXCEPT ![c] = "settled"]

\* ensureTransaction: if (!this.transactionId)
NoTransaction(id) == id = Null

\* upsert: the loop condition i < vectors.length
LoopCond(iv, vs) == iv < Len(vs)

\* upsert: i += this.batchSize
NextI(iv) == iv + batchSize

\* mutant: the slice ends one element early
NextBatchShort(vs, iv) == slice(vs, iv, iv + batchSize - 1)

\* upsert: vectors.slice(i, i + this.batchSize)
NextBatch(vs, iv) == slice(vs, iv, iv + batchSize)

\* mutant: upsertBatch posts the batch without ensureTransaction
upsertBatchNoEnsure(c, k, b) ==
  /\ log' = Append(log, Req(c, k, "upsert", transactionId[txn[c]], b))
  /\ pc' = [pc EXCEPT ![c] = "upsert_wait"]

\* upsertBatch(batch) up to its first request: ensureTransaction posts the
\* create request when there is no id, otherwise the batch is posted
upsertBatch(c, k, b) ==
  IF NoTransaction(transactionId[txn[c]])
  THEN /\ log' = Append(log, Req(c, k, "create", Null, << >>))
       /\ pc' = [pc EXCEPT ![c] = "create_wait"]
  ELSE /\ log' = Append(log, Req(c, k, "upsert", transactionId[txn[c]], b))
       /\ pc' = [pc EXCEPT ![c] = "upsert_wait"]

\* upsert(vectors) is called: the loop starts at i = 0
upsertCall(c, n) ==
  /\ Invoke(c)
  /\ vectors' = [vectors EXCEPT ![c] = Vectors(n)]
  /\ i' = [i EXCEPT ![c] = 0]
  /\ batch' = [batch EXCEPT ![c] = << >>]
  /\ pc' = [pc EXCEPT ![c] = "upsert"]

\* upsert: one evaluation of the for loop header and, when it holds, the body
\* up to the request of upsertBatch; otherwise return this
upsert(c) ==
  /\ pc[c] = "upsert"
  /\ IF LoopCond(i[c], vectors[c])
     THEN /\ batch' = [batch EXCEPT ![c] = NextBatch(vectors[c], i[c])]
          /\ upsertBatch(c, inv[c], NextBatch(vectors[c], i[c]))
          /\ UNCHANGED settled
     ELSE /\ Settle(c, Returned(This))
          /\ UNCHANGED <<batch, log>>
  /\ UNCHANGED <<transactionId, serverIds, calls, invs, ctx, txn, vectors, i, result,
                 error, outcome, cb, call, inv, cbUpserts, op>>
  /\ UNCHANGED clientVars

\* mutant: create does not store the id it was given
createForgetsId(c) ==
  /\ pc[c] = "create_wait"
  /\ \E status \in Answers("create") :
       /\ serverIds' = IF Succeeded("create", status) THEN serverIds + 1 ELSE serverIds
       /\ IF ~CreateOk(status)
          THEN /\ log' = Append(log, Resp(c, "create", Null, Succeeded("create", status)))
               /\ Settle(c, Threw(ErrCreate))
          ELSE /\ log' = log \o <<Resp(c, "create", NewId(status), Succeeded("create", status)),
                                  Req(c, inv[c], "upsert", transactionId[txn[c]], batch[c])>>
               /\ pc' = [pc EXCEPT ![c] = "upsert_wait"]
               /\ UNCHANGED settled
  /\ UNCHANGED <<transactionId, calls, invs, ctx, txn, vectors, i, batch, result, error,
                 outcome, cb, call, inv, cbUpserts, op>>
  /\ UNCHANGED clientVars

\* mutant: create stores the id it was given only when there is none yet
createKeepsFirst(c) ==
  /\ pc[c] = "create_wait"
  /\ \E status \in Answers("create") :
       LET kept == IF NoTransaction(transactionId[txn[c]])
                   THEN NewId(status) ELSE transactionId[txn[c]]
       IN /\ serverIds' = IF Succeeded("create", status) THEN serverIds + 1 ELSE serverIds
          /\ IF ~CreateOk(status)
             THEN /\ log' = Append(log, Resp(c, "create", Null, Succeeded("create", status)))
                  /\ Settle(c, Threw(ErrCreate))
                  /\ UNCHANGED transactionId
             ELSE /\ transactionId' = [transactionId EXCEPT ![txn[c]] = kept]
                  /\ log' = log \o <<Resp(c, "create", NewId(status), Succeeded("create", status)),
                                     Req(c, inv[c], "upsert", kept, batch[c])>>
                  /\ pc' = [pc EXCEPT ![c] = "upsert_wait"]
                  /\ UNCHANGED settled
  /\ UNCHANGED <<calls, invs, ctx, txn, vectors, i, batch, result, error, outcome,
                 cb, call, inv, cbUpserts, op>>
  /\ UNCHANGED clientVars

\* mutant: the id create is given is stored in every Transaction object
createSharesId(c) ==
  /\ pc[c] = "create_wait"
  /\ \E status \in Answers("create") :
       /\ serverIds' = IF Succeeded("create", status) THEN serverIds + 1 ELSE serverIds
       /\ IF ~CreateOk(status)
          THEN /\ log' = Append(log, Resp(c, "create", Null, Succeeded("create", status)))
               /\ Settle(c, Threw(ErrCreate))
               /\ UNCHANGED transactionId
          ELSE /\ transactionId' = [t \in DOMAIN transactionId |-> NewId(status)]
               /\ log' = log \o <<Resp(c, "create", NewId(status), Succeeded("create", status)),
                                  Req(c, inv[c], "upsert", NewId(status), batch[c])>>
               /\ pc' = [pc EXCEPT ![c] = "upsert_wait"]
               /\ UNCHANGED settled
  /\ UNCHANGED <<calls, invs, ctx, txn, vectors, i, batch, result, error, outcome,
                 cb, call, inv, cbUpserts, op>>
  /\ UNCHANGED clientVars

\* create: the response arrives while ensureTransaction awaits it; on 200/201
\* the id is stored and upsertBatch goes on to post its batch under it
create(c) ==
  /\ pc[c] = "create_wait"
  /\ \E status \in Answers("create") :
       /\ serverIds' = IF Succeeded("create", status) THEN serverIds + 1 ELSE serverIds
       /\ IF ~CreateOk(status)
          THEN /\ log' = Append(log, Resp(c, "create", Null, Succeeded("create", status)))
               /\ Settle(c, Threw(ErrCreate))
               /\ UNCHANGED transactionId
          ELSE /\ transactionId' = [transactionId EXCEPT ![txn[c]] = NewId(status)]
               /\ log' = log \o <<Resp(c, "create", NewId(status), Succeeded("create", status)),
                                  Req(c, inv[c], "upsert", NewId(status), batch[c])>>
               /\ pc' = [pc EXCEPT ![c] = "upsert_wait"]
               /\ UNCHANGED settled
  /\ UNCHANGED <<calls, invs, ctx, txn, vectors, i, batch, result, error, outcome,
                 cb, call, inv, cbUpserts, op>>
  /\ UNCHANGED clientVars

\* mutant: the loop of upsert does not await the response to its batch
upsertBatchNotAwaited(c) ==
  /\ pc[c] = "upsert_wait"
  /\ i' = [i EXCEPT ![c] = NextI(i[c])]
  /\ pc' = [pc EXCEPT ![c] = "upsert"]
  /\ UNCHANGED <<transactionId, serverIds, log, calls, invs, ctx, txn, vectors, batch,
                 result, error, settled, outcome, cb, call, inv, cbUpserts, op>>
  /\ UNCHANGED clientVars

\* upsertBatch: the response to the batch arrives
upsertBatchResponse(c) ==
  /\ pc[c] = "upsert_wait"
  /\ \E status \in Answers("upsert") :
       /\ log' = Append(log, Resp(c, "upsert", InFlight(c).id, Succeeded("upsert", status)))
       /\ IF ~UpsertOk(status)
          THEN /\ Settle(c, Threw(ErrUpsert))
               /\ UNCHANGED i
          ELSE /\ i' = [i EXCEPT ![c] = NextI(i[c])]
               /\ pc' = [pc EXCEPT ![c] = "upsert"]
               /\ UNCHANGED settled
  /\ UNCHANGED <<transactionId, serverIds, calls, invs, ctx, txn, vectors, batch,
                 result, error, outcome, cb, call, inv, cbUpserts, op>>
  /\ UNCHANGED clientVars

\* mutant: commit posts its request without looking at the id
commitCallUnguarded(c) ==
  /\ Invoke(c)
  /\ log' = Append(log, Req(c, invs + 1, "commit", transactionId[txn[c]], << >>))
  /\ pc' = [pc EXCEPT ![c] = "commit_wait"]
  /\ UNCHANGED settled

\* commit() is called: without an id it throws, otherwise the request is posted
commitCall(c) ==
  /\ Invoke(c)
  /\ IF NoTransaction(transactionId[txn[c]])
     THEN /\ Settle(c, Threw(ErrNoActiveCommit))
          /\ UNCHANGED log
     ELSE /\ log' = Append(log, Req(c, invs + 1, "commit", transactionId[txn[c]], << >>))
          /\ pc' = [pc EXCEPT ![c] = "commit_wait"]
          /\ UNCHANGED settled

\* mutant: the id is not cleared
ClosedIdKept(id) == id

\* the id commit and abort leave behind on success: this.transactionId = null
ClosedId(id) == Null

\* mutant: commit clears the id before it looks at the status
commitClearsFirst(c) ==
  /\ pc[c] = "commit_wait"
  /\ \E status \in Answers("commit") :
       /\ log' = Append(log, Resp(c, "commit", InFlight(c).id, Succeeded("commit", status)))
       /\ transactionId' = [transactionId EXCEPT ![txn[c]] = Null]
       /\ IF ~CommitOk(status)
          THEN Settle(c, Threw(ErrCommit))
          ELSE Settle(c, Returned(CommitData))
  /\ UNCHANGED <<serverIds, calls, invs, ctx, txn, vectors, i, batch, result, error,
                 outcome, cb, call, inv, cbUpserts, op>>
  /\ UNCHANGED clientVars

\* commit: the response arrives
commit(c) ==
  /\ pc[c] = "commit_wait"
  /\ \E status \in Answers("commit") :
       /\ log' = Append(log, Resp(c, "commit", InFlight(c).id, Succeeded("commit", status)))
       /\ IF ~CommitOk(status)
          THEN /\ Settle(c, Threw(ErrCommit))
               /\ UNCHANGED transactionId
          ELSE /\ transactionId' = [transactionId EXCEPT ![txn[c]] = ClosedId(@)]
               /\ Settle(c, Returned(CommitData))
  /\ UNCHANGED <<serverIds, calls, invs, ctx, txn, vectors, i, batch, result, error,
                 outcome, cb, call, inv, cbUpserts, op>>
  /\ UNCHANGED clientVars

\* mutant: abort posts its request without looking at the id
abortCallUnguarded(c) ==
  /\ Invoke(c)
  /\ log' = Append(log, Req(c, invs + 1, "abort", transactionId[txn[c]], << >>))
  /\ pc' = [pc EXCEPT ![c] = "abort_wait"]
  /\ UNCHANGED settled

\* abort() is called: without an id it throws, otherwise the request is posted
abortCall(c) ==
  /\ Invoke(c)
  /\ IF NoTransaction(transactionId[txn[c]])
     THEN /\ Settle(c, Threw(ErrNoActiveAbort))
          /\ UNCHANGED log
     ELSE /\ log' = Append(log, Req(c, invs + 1, "abort", transactionId[txn[c]], << >>))
          /\ pc' = [pc EXCEPT ![c] = "abort_wait"]
          /\ UNCHANGED settled

\* mutant: abort leaves the id in place on success
abortKeepsId(c) ==
  /\ pc[c] = "abort_wait"
  /\ \E status \in Answers("abort") :
       /\ log' = Append(log, Resp(c, "abort", InFlight(c).id, Succeeded("abort", status)))
       /\ IF ~AbortOk(status)
          THEN Settle(c, Threw(ErrAbort))
          ELSE Settle(c, Returned(AbortData))
  /\ UNCHANGED <<transactionId, serverIds, calls, invs, ctx, txn, vectors, i, batch,
                 result, error, outcome, cb, call, inv, cbUpserts, op>>
  /\ UNCHANGED clientVars

\* abort: the response arrives
abort(c) ==
  /\ pc[c] = "abort_wait"
  /\ \E status \in Answers("abort") :
       /\ log' = Append(log, Resp(c, "abort", InFlight(c).id, Succeeded("abort", status)))
       /\ IF ~AbortOk(status)
          THEN /\ Settle(c, Threw(ErrAbort))
               /\ UNCHANGED transactionId
          ELSE /\ transactionId' = [transactionId EXCEPT ![txn[c]] = ClosedId(@)]
               /\ Settle(c, Returned(AbortData))
  /\ UNCHANGED <<serverIds, calls, invs, ctx, txn, vectors, i, batch, result, error,
                 outcome, cb, call, inv, cbUpserts, op>>
  /\ UNCHANGED clientVars

\* ------------------------------------------------------------------ Index
\* createTransaction: return new Transaction(...), its transactionId null
createTransaction(c) ==
  /\ transactionId' = Append(transactionId, Null)
  /\ txn' = [txn EXCEPT ![c] = Len(transactionId) + 1]

\* a top-level call of caller c starts
StartCall(c, o) ==
  /\ pc[c] = "idle"
  /\ MayCall
  /\ calls' = calls + 1
  /\ call' = [call EXCEPT ![c] = calls + 1]
  /\ op' = [op EXCEPT ![c] = o]

\* a top-level call of caller c settles
EndCall(c, s) ==
  /\ outcome' = [outcome EXCEPT ![c] =
                   [op |-> op[c], call |-> call[c], kind |-> s.kind, val |-> s.val]]
  /\ pc' = [pc EXCEPT ![c] = "idle"]
  /\ settled' = [settled EXCEPT ![c] = None]

\* ---- manual use: const txn = index.createTransaction(); txn.upsert(...); ...
Upsert(c, n) ==
  /\ StartCall(c, "upsert")
  /\ ctx' = [ctx EXCEPT ![c] = "manual"]
  /\ upsertCall(c, n)
  /\ UNCHANGED <<transactionId, serverIds, log, txn, result, error, settled, outcome,
                 cb, cbUpserts>>
  /\ UNCHANGED clientVars

Commit(c) ==
  /\ StartCall(c, "commit")
  /\ ctx' = [ctx EXCEPT ![c] = "manual"]
  /\ commitCall(c)
  /\ UNCHANGED <<transactionId, serverIds, txn, vectors, i, batch, result, error,
                 outcome, cb, cbUpserts>>
  /\ UNCHANGED clientVars

Abort(c) ==
  /\ StartCall(c, "abort")
  /\ ctx' = [ctx EXCEPT ![c] = "manual"]
  /\ abortCall(c)
  /\ UNCHANGED <<transactionId, serverIds, txn, vectors, i, batch, result, error,
                 outcome, cb, cbUpserts>>
  /\ UNCHANGED clientVars

\* the caller's await of txn.upsert / commit / abort resumes
Awaited(c) ==
  /\ pc[c] = "settled"
  /\ ctx[c] = "manual"
  /\ EndCall(c, settled[c])
  /\ UNCHANGED <<transactionId, serverIds, log, calls, invs, ctx, txn, vectors, i,
                 batch, result, error, cb, call, inv, cbUpserts, op>>
  /\ UNCHANGED clientVars

\* ---- Index.transaction(callback)
\* const txn = this.createTransaction(); try { ... await callback(txn)
transaction(c) ==
  /\ StartCall(c, "transaction")
  /\ createTransaction(c)
  /\ ctx' = [ctx EXCEPT ![c] = "cb"]
  /\ pc' = [pc EXCEPT ![c] = "callback"]
  /\ cbUpserts' = [cbUpserts EXCEPT ![c] = 0]
  /\ cb' = [cb EXCEPT ![c] = None]
  /\ result' = [result EXCEPT ![c] = "none"]
  /\ error' = [error EXCEPT ![c] = "none"]
  /\ UNCHANGED <<serverIds, log, invs, vectors, i, batch, settled, outcome, inv>>
  /\ UNCHANGED clientVars

\* the callback calls await txn.upsert(vectors)
CallbackUpsert(c, n) ==
  /\ pc[c] = "callback"
  /\ MayCall
  /\ calls' = calls + 1
  /\ cbUpserts' = [cbUpserts EXCEPT ![c] = @ + 1]
  /\ upsertCall(c, n)
  /\ UNCHANGED <<transactionId, serverIds, log, ctx, txn, result, error,
                 settled, outcome, cb, call, op>>
  /\ UNCHANGED clientVars

\* the upsert the callback awaits returned: the callback goes on
CallbackResume(c) ==
  /\ pc[c] = "settled"
  /\ ctx[c] = "cb"
  /\ settled[c].kind = "returned"
  /\ pc' = [pc EXCEPT ![c] = "callback"]
  /\ settled' = [settled EXCEPT ![c] = None]
  /\ UNCHANGED <<transactionId, serverIds, log, calls, invs, ctx, txn, vectors, i,
                 batch, result, error, outcome, cb, call, inv, cbUpserts, op>>
  /\ UNCHANGED clientVars

\* the upsert the callback awaits threw and the callback catches the error
CallbackCatch(c) ==
  /\ pc[c] = "settled"
  /\ ctx[c] = "cb"
  /\ settled[c].kind = "threw"
  /\ pc' = [pc EXCEPT ![c] = "callback"]
  /\ settled' = [settled EXCEPT ![c] = None]
  /\ UNCHANGED <<transactionId, serverIds, log, calls, invs, ctx, txn, vectors, i,
                 batch, result, error, outcome, cb, call, inv, cbUpserts, op>>
  /\ UNCHANGED clientVars

\* catch (error) { await txn.abort(); ... : entered with the error e
transactionCatch(c, e) ==
  /\ error' = [error EXCEPT ![c] = e]
  /\ ctx' = [ctx EXCEPT ![c] = "helper_abort"]
  /\ abortCall(c)

\* const result = await callback(txn); await txn.commit(); : entered with v
transactionCommit(c, v) ==
  /\ result' = [result EXCEPT ![c] = v]
  /\ ctx' = [ctx EXCEPT ![c] = "helper_commit"]
  /\ commitCall(c)

\* the upsert the callback awaits threw and the callback rejects with that error
CallbackPropagate(c) ==
  /\ pc[c] = "settled"
  /\ ctx[c] = "cb"
  /\ settled[c].kind = "threw"
  /\ cb' = [cb EXCEPT ![c] = Threw(settled[c].val)]
  /\ transactionCatch(c, settled[c].val)
  /\ UNCHANGED <<transactionId, serverIds, calls, txn, vectors, i, batch, result,
                 outcome, call, cbUpserts, op>>
  /\ UNCHANGED clientVars

\* the callback throws an error of its own
CallbackThrow(c) ==
  /\ pc[c] = "callback"
  /\ cb' = [cb EXCEPT ![c] = Threw(ErrCallback)]
  /\ transactionCatch(c, ErrCallback)
  /\ UNCHANGED <<transactionId, serverIds, calls, txn, vectors, i, batch, result,
                 outcome, call, cbUpserts, op>>
  /\ UNCHANGED clientVars

\* the callback returns v
CallbackReturn(c, v) ==
  /\ pc[c] = "callback"
  /\ cb' = [cb EXCEPT ![c] = Returned(v)]
  /\ transactionCommit(c, v)
  /\ UNCHANGED <<transactionId, serverIds, calls, txn, vectors, i, batch, error,
                 outcome, call, cbUpserts, op>>
  /\ UNCHANGED clientVars

\* await txn.commit() returned: return result
transactionReturn(c) ==
  /\ pc[c] = "settled"
  /\ ctx[c] = "helper_commit"
  /\ settled[c].kind = "returned"
  /\ EndCall(c, Returned(result[c]))
  /\ txn' = [txn EXCEPT ![c] = Own]
  /\ UNCHANGED <<transactionId, serverIds, log, calls, invs, ctx, vectors, i, batch,
                 result, error, cb, call, inv, cbUpserts, op>>
  /\ UNCHANGED clientVars

\* mutant: a commit that threw ends the helper without the catch block
transactionCommitThrewNoCatch(c) ==
  /\ pc[c] = "settled"
  /\ ctx[c] = "helper_commit"
  /\ settled[c].kind = "threw"
  /\ EndCall(c, Threw(settled[c].val))
  /\ txn' = [txn EXCEPT ![c] = Own]
  /\ UNCHANGED <<transactionId, serverIds, log, calls, invs, ctx, vectors, i, batch,
                 result, error, cb, call, inv, cbUpserts, op>>
  /\ UNCHANGED clientVars

\* await txn.commit() threw inside the try block: the catch block runs
transactionCommitThrew(c) ==
  /\ pc[c] = "settled"
  /\ ctx[c] = "helper_commit"
  /\ settled[c].kind = "threw"
  /\ transactionCatch(c, settled[c].val)
  /\ UNCHANGED <<transactionId, serverIds, calls, txn, vectors, i, batch, result,
                 outcome, cb, call, cbUpserts, op>>
  /\ UNCHANGED clientVars

\* what the catch block ends with once await txn.abort() has settled as s:
\* throw error when abort returned, abort's own exception when it threw
CatchEnd(c, s) == IF s.kind = "returned" THEN Threw(error[c]) ELSE Threw(s.val)

\* await txn.abort() settled inside the catch block
transactionThrow(c) ==
  /\ pc[c] = "settled"
  /\ ctx[c] = "helper_abort"
  /\ EndCall(c, CatchEnd(c, settled[c]))
  /\ txn' = [txn EXCEPT ![c] = Own]
  /\ UNCHANGED <<transactionId, serverIds, log, calls, invs, ctx, vectors, i, batch,
                 result, error, cb, call, inv, cbUpserts, op>>
  /\ UNCHANGED clientVars

\* ------------------------------------------------------------ specification
Step(c) ==
  \/ \E n \in Lengths : Upsert(c, n)
  \/ Commit(c)
  \/ Abort(c)
  \/ Awaited(c)
  \/ upsert(c)
  \/ create(c)
  \/ upsertBatchResponse(c)
  \/ commit(c)
  \/ abort(c)
  \/ transaction(c)
  \/ \E n \in Lengths : CallbackUpsert(c, n)
  \/ CallbackResume(c)
  \/ CallbackCatch(c)
  \/ CallbackPropagate(c)
  \/ CallbackThrow(c)
  \/ \E v \in CbValues : CallbackReturn(c, v)
  \/ transactionReturn(c)
  \/ transactionCommitThrew(c)
  \/ transactionThrow(c)

Next == \E c \in Callers : Step(c)

Spec == Init /\ [][Next]_vars

\* ----------------------------------------------------------------- Client
\* if (this.token): the empty string is falsy
Truthy(tok) == tok # NoToken

\* `Bearer ${this.token}`
Bearer(tok) == "Bearer " \o tok

\* mutant: getHeaders never adds Authorization
getHeadersBare(tok) == [h \in {"Content-type"} |-> "application/json"]

\* getHeaders(): Content-type always, Authorization when there is a token
getHeaders(tok) ==
  IF Truthy(tok)
  THEN [h \in {"Content-type", "Authorization"} |->
          IF h = "Content-type" THEN "application/json" ELSE Bearer(tok)]
  ELSE [h \in {"Content-type"} |-> "application/json"]

\* the operations that post a request, by the class they belong to
ClientOps == {"createCollection", "getCollection", "listCollections"}
CollectionOps == {"createIndex", "index", "getInfo"}
IndexOps == {"query", "fetchVector"}

\* the request an operation posts: index() is return this.createIndex(...)
Endpoint(o) == IF o = "index" THEN "createIndex" ELSE o

\* mutant: login does not look at the status
LoginOkAny(status) == TRUE

\* mutant: every operation accepts 201 as well
ApiOkLoose(e, status) == status = 200 \/ status = 201

\* the status checks
LoginOk(status) == status = 200
ApiOk(e, status) ==
  IF e \in {"createCollection", "createIndex"}
  THEN status = 200 \/ status = 201
  ELSE status = 200

\* the errors thrown
ErrAuth == "Authentication failed"
ErrOf(e) ==
  CASE e = "createCollection" -> "Failed to create collection"
    [] e = "getCollection" -> "Failed to get collection"
    [] e = "listCollections" -> "Failed to list collections"
    [] e = "createIndex" -> "Failed to create index"
    [] e = "getInfo" -> "Failed to get collection info"
    [] e = "query" -> "Failed to search vector"
    [] e = "fetchVector" -> "Failed to fetch vector"

\* the object a successful operation hands to user code
Handle(e) ==
  CASE e \in {"createCollection", "getCollection"} -> {"collection"}
    [] e = "createIndex" -> {"index"}
    [] OTHER -> {}

\* server: the statuses with which it answers a request it has carried out
Served(e, status) ==
  CASE e = "login" -> status = 200
    [] e \in {"createCollection", "createIndex"} -> status \in {200, 201}
    [] OTHER -> status = 200

\* server: the status with which it refuses to create an index that exists
Conflict == 409

\* server: the statuses it may answer the next request with
ClientAnswers(e) ==
  IF e = "createIndex" /\ denseIndex
  THEN {Conflict}
  ELSE {st \in Statuses : Served(e, st) \/ Failures < MaxFailures}

\* server: response.data.access_token of the answer to a login request
access_token(status) ==
  IF Served("login", status) THEN "session" \o ToString(sessions + 1) ELSE NoToken

\* log entries of the client: a request with the headers it was posted with,
\* a response with the access token in its body
ClientReq(c, k, e, tok) ==
  [type |-> "req", op |-> e, ok |-> TRUE, call |-> k, caller |-> c,
   headers |-> getHeaders(tok), data |-> NoToken]
ClientResp(c, e, ok, tok) ==
  [type |-> "resp", op |-> e, ok |-> ok, call |-> call[c], caller |-> c,
   headers |-> getHeaders(NoToken), data |-> tok]

\* what the client model leaves alone
txnVars == <<transactionId, serverIds, invs, ctx, txn, vectors, i, batch, result,
             error, cb, inv, cbUpserts>>

\* login() up to its request
loginCall(c, k) ==
  /\ log' = Append(log, ClientReq(c, k, "login", token))
  /\ pc' = [pc EXCEPT ![c] = "login_wait"]

\* the request of operation o, posted with getHeaders() of the moment
apiCall(c, k, o) ==
  /\ log' = Append(log, ClientReq(c, k, Endpoint(o), token))
  /\ pc' = [pc EXCEPT ![c] = "api_wait"]

\* mutant: ensureAuthenticated logs in without looking at the token
ensureAuthenticatedAlways(c, k, o) == loginCall(c, k)

\* await this.ensureAuthenticated() and what follows it, up to the first
\* request: login when there is no token, otherwise the request of o
ensureAuthenticated(c, k, o) ==
  IF ~Truthy(token) THEN loginCall(c, k) ELSE apiCall(c, k, o)

\* user code calls client.login()
Login(c) ==
  /\ StartCall(c, "login")
  /\ loginCall(c, calls + 1)
  /\ UNCHANGED <<settled, outcome, clientVars, txnVars>>

\* user code calls client.createCollection / getCollection / listCollections
ClientCall(c, o) ==
  /\ StartCall(c, o)
  /\ ensureAuthenticated(c, calls + 1, o)
  /\ UNCHANGED <<settled, outcome, clientVars, txnVars>>

\* user code constructs a Collection for the client itself: the class is
\* exported and its constructor posts nothing: new Collection(client, name, d)
newCollection(c) ==
  /\ pc[c] = "idle"
  /\ "collection" \notin handles
  /\ handles' = handles \cup {"collection"}
  /\ UNCHANGED <<log, calls, call, op, pc, settled, outcome, token, sessions,
                 denseIndex, txnVars>>

\* user code calls collection.createIndex / index / getInfo
CollectionCall(c, o) ==
  /\ "collection" \in handles
  /\ StartCall(c, o)
  /\ apiCall(c, calls + 1, o)
  /\ UNCHANGED <<settled, outcome, clientVars, txnVars>>

\* user code calls index.query / fetchVector
IndexCall(c, o) ==
  /\ "index" \in handles
  /\ StartCall(c, o)
  /\ apiCall(c, calls + 1, o)
  /\ UNCHANGED <<settled, outcome, clientVars, txnVars>>

\* mutant: login stores the token it was given only when there is none yet
loginKeepsFirst(c) ==
  /\ pc[c] = "login_wait"
  /\ \E status \in ClientAnswers("login") :
       LET resp == ClientResp(c, "login", Served("login", status), access_token(status))
           kept == IF Truthy(token) THEN token ELSE access_token(status)
       IN /\ sessions' = IF Served("login", status) THEN sessions + 1 ELSE sessions
          /\ IF ~LoginOk(status)
             THEN /\ log' = Append(log, resp)
                  /\ EndCall(c, Threw(ErrAuth))
                  /\ UNCHANGED token
             ELSE /\ token' = kept
                  /\ IF op[c] = "login"
                     THEN /\ log' = Append(log, resp)
                          /\ EndCall(c, Returned(kept))
                     ELSE /\ log' = log \o <<resp, ClientReq(c, call[c], Endpoint(op[c]), kept)>>
                          /\ pc' = [pc EXCEPT ![c] = "api_wait"]
                          /\ UNCHANGED <<settled, outcome>>
  /\ UNCHANGED <<calls, call, op, handles, denseIndex, txnVars>>

\* login: the response arrives; on 200 the token is stored and, inside
\* ensureAuthenticated, the operation goes on to post its request
login(c) ==
  /\ pc[c] = "login_wait"
  /\ \E status \in ClientAnswers("login") :
       LET resp == ClientResp(c, "login", Served("login", status), access_token(status))
       IN /\ sessions' = IF Served("login", status) THEN sessions + 1 ELSE sessions
          /\ IF ~LoginOk(status)
             THEN /\ log' = Append(log, resp)
                  /\ EndCall(c, Threw(ErrAuth))
                  /\ UNCHANGED token
             ELSE /\ token' = access_token(status)
                  /\ IF op[c] = "login"
                     THEN /\ log' = Append(log, resp)
                          /\ EndCall(c, Returned(access_token(status)))
                     ELSE /\ log' = log \o <<resp, ClientReq(c, call[c], Endpoint(op[c]),
                                                               access_token(status))>>
                          /\ pc' = [pc EXCEPT ![c] = "api_wait"]
                          /\ UNCHANGED <<settled, outcome>>
  /\ UNCHANGED <<calls, call, op, handles, denseIndex, txnVars>>

\* the response to the request of an operation arrives
apiResponse(c) ==
  /\ pc[c] = "api_wait"
  /\ LET e == Endpoint(op[c])
     IN \E status \in ClientAnswers(e) :
          /\ log' = Append(log, ClientResp(c, e, Served(e, status), NoToken))
          /\ denseIndex' = (denseIndex \/ (e = "createIndex" /\ Served(e, status)))
          /\ IF ~ApiOk(e, status)
             THEN /\ EndCall(c, Threw(ErrOf(e)))
                  /\ UNCHANGED handles
             ELSE /\ handles' = handles \cup Handle(e)
                  /\ EndCall(c, Returned(e))
  /\ UNCHANGED <<calls, call, op, token, sessions, txnVars>>

ClientStep(c) ==
  \/ Login(c)
  \/ \E o \in ClientOps : ClientCall(c, o)
  \/ newCollection(c)
  \/ \E o \in CollectionOps : CollectionCall(c, o)
  \/ \E o \in IndexOps : IndexCall(c, o)
  \/ login(c)
  \/ apiResponse(c)

NextClient == \E c \in Callers : ClientStep(c)

SpecClient == Init /\ [][NextClient]_vars

\* ------------------------------------------------- overlapping call chains
\* two call chains of user code that use the same Transaction object without
\* awaiting each other: nothing in Transaction keeps them apart
RaceCallers == {1, 2}

\* each of them upserts one vector: one batch
RaceLengths == {1}

InitRace ==
  /\ transactionId = <<Null>>
  /\ serverIds = 0
  /\ log = << >>
  /\ calls = 0
  /\ invs = 0
  /\ pc = [c \in RaceCallers |-> "idle"]
  /\ ctx = [c \in RaceCallers |-> "manual"]
  /\ txn = [c \in RaceCallers |-> Own]
  /\ vectors = [c \in RaceCallers |-> << >>]
  /\ i = [c \in RaceCallers |-> 0]
  /\ batch = [c \in RaceCallers |-> << >>]
  /\ result = [c \in RaceCallers |-> "none"]
  /\ error = [c \in RaceCallers |-> "none"]
  /\ settled = [c \in RaceCallers |-> None]
  /\ outcome = [c \in RaceCallers |-> NoOutcome]
  /\ cb = [c \in RaceCallers |-> None]
  /\ call = [c \in RaceCallers |-> 0]
  /\ inv = [c \in RaceCallers |-> 0]
  /\ cbUpserts = [c \in RaceCallers |-> 0]
  /\ op = [c \in RaceCallers |-> "none"]
  /\ token = NoToken
  /\ sessions = 0
  /\ handles = {}
  /\ denseIndex = FALSE

RaceStep(c) ==
  \/ \E n \in RaceLengths : Upsert(c, n)
  \/ Commit(c)
  \/ Abort(c)
  \/ Awaited(c)
  \/ upsert(c)
  \/ create(c)
  \/ upsertBatchResponse(c)
  \/ commit(c)
  \/ abort(c)

NextRace == \E c \in RaceCallers : RaceStep(c)

SpecRace == InitRace /\ [][NextRace]_vars

\* ------------------------------------------- independent Transaction objects
\* two call chains, each with a Transaction of its own from
\* index.createTransaction(), on the same collection
InitTwo ==
  /\ transactionId = <<Null, Null>>
  /\ serverIds = 0
  /\ log = << >>
  /\ calls = 0
  /\ invs = 0
  /\ pc = [c \in RaceCallers |-> "idle"]
  /\ ctx = [c \in RaceCallers |-> "manual"]
  /\ txn = [c \in RaceCallers |-> c]
  /\ vectors = [c \in RaceCallers |-> << >>]
  /\ i = [c \in RaceCallers |-> 0]
  /\ batch = [c \in RaceCallers |-> << >>]
  /\ result = [c \in RaceCallers |-> "none"]
  /\ error = [c \in RaceCallers |-> "none"]
  /\ settled = [c \in RaceCallers |-> None]
  /\ outcome = [c \in RaceCallers |-> NoOutcome]
  /\ cb = [c \in RaceCallers |-> None]
  /\ call = [c \in RaceCallers |-> 0]
  /\ inv = [c \in RaceCallers |-> 0]
  /\ cbUpserts = [c \in RaceCallers |-> 0]
  /\ op = [c \in RaceCallers |-> "none"]
  /\ token = NoToken
  /\ sessions = 0
  /\ handles = {}
  /\ denseIndex = FALSE

TwoStep(c) ==
  \/ \E n \in RaceLengths : Upsert(c, n)
  \/ Commit(c)
  \/ Abort(c)
  \/ Awaited(c)
  \/ upsert(c)
  \/ create(c)
  \/ upsertBatchResponse(c)
  \/ commit(c)
  \/ abort(c)

NextTwo == \E c \in RaceCallers : TwoStep(c)

SpecTwo == InitTwo /\ [][NextTwo]_vars

\* ------------------------------------------------------- the whole SDK
\* one call chain that uses the Client, a Collection, an Index and a
\* Transaction in any order
\* its upserts are of no vector or of one: at most one batch
AllLengths == {0, 1}

AllStep(c) ==
  \/ Login(c)
  \/ \E o \in ClientOps : ClientCall(c, o)
  \/ newCollection(c)
  \/ \E o \in CollectionOps : CollectionCall(c, o)
  \/ \E o \in IndexOps : IndexCall(c, o)
  \/ login(c)
  \/ apiResponse(c)
  \/ \E n \in AllLengths : Upsert(c, n)
  \/ Commit(c)
  \/ Abort(c)
  \/ Awaited(c)
  \/ upsert(c)
  \/ create(c)
  \/ upsertBatchResponse(c)
  \/ commit(c)
  \/ abort(c)

NextAll == \E c \in Callers : AllStep(c)

SpecAll == Init /\ [][NextAll]_vars

\* --------------------------------------- overlapping calls on one Client
\* two call chains that use the same Client without awaiting each other
ClientRaceStep(c) ==
  \/ Login(c)
  \/ \E o \in ClientOps : ClientCall(c, o)
  \/ login(c)
  \/ apiResponse(c)

NextClientRace == \E c \in RaceCallers : ClientRaceStep(c)

SpecClientRace == InitRace /\ [][NextClientRace]_vars

\* ------------------------------------------------------------------ claims
\* readings of the log
Positions == 1..Len(log)
IsReq(p, o) == log[p].type = "req" /\ log[p].op = o
IsResp(p, o) == log[p].type = "resp" /\ log[p].op = o
\* the requests for operation o posted by method invocation k / top-level call k
ReqsOfInv(k, o) == SelectSeq(log, LAMBDA e : e.type = "req" /\ e.op = o /\ e.inv = k)
ReqsOfCall(k, o) == SelectSeq(log, LAMBDA e : e.type = "req" /\ e.op = o /\ e.call = k)
RespsOfCall(k, o) == SelectSeq(log, LAMBDA e : e.type = "resp" /\ e.op = o /\ e.call = k)

RECURSIVE Concat(_)
Concat(es) == IF es = << >> THEN << >> ELSE Head(es).batch \o Concat(Tail(es))

\* caller c is inside a call of upsert, or that call has just settled
InUpsert(c) ==
  \/ pc[c] \in {"upsert", "create_wait", "upsert_wait"}
  \/ pc[c] = "settled" /\ settled[c].val \in {This, ErrUpsert, ErrCreate}
UpsertReturned(c) == pc[c] = "settled" /\ settled[c] = Returned(This)

\* C1: an upsert of n vectors posts its batches in input order, every batch
\* with at most 200 vectors and all but the last with exactly 200; when the
\* call returns it has posted exactly ceil(n/200) batches, the last of n mod 200
\* vectors (200 when n is a positive multiple of 200), which concatenated are
\* the input.
C1_UpsertBatches ==
  \A c \in Callers :
    InUpsert(c) =>
      LET bs == ReqsOfInv(inv[c], "upsert")
          m == Len(bs)
          n == Len(vectors[c])
          all == Concat(bs)
      IN /\ \A j \in 1..m : Len(bs[j].batch) >= 1 /\ Len(bs[j].batch) <= 200
         /\ \A j \in 1..(m - 1) : Len(bs[j].batch) = 200
         /\ Len(all) <= n
         /\ all = SubSeq(vectors[c], 1, Len(all))
         /\ UpsertReturned(c) =>
              /\ m = (n + 199) \div 200
              /\ all = vectors[c]
              /\ m > 0 => Len(bs[m].batch) = (IF n % 200 = 0 THEN 200 ELSE n % 200)

\* C1 witness: an upsert of 201 vectors has returned after posting two batches
C1_Witness ==
  \E c \in Callers :
    /\ UpsertReturned(c)
    /\ Len(vectors[c]) = 201
    /\ Len(ReqsOfInv(inv[c], "upsert")) = 2

\* Index.transaction of caller c has settled
HelperDone(c) == pc[c] = "idle" /\ outcome[c].op = "transaction"

\* C2 (as claimed): when the callback of Index.transaction throws or rejects,
\* exactly one abort request is posted and the helper rejects with the error
\* the callback threw.
C2_AbortOnceAndRethrow ==
  \A c \in Callers :
    (HelperDone(c) /\ cb[c].kind = "threw") =>
      /\ Len(ReqsOfCall(outcome[c].call, "abort")) = 1
      /\ outcome[c].kind = "threw"
      /\ outcome[c].val = cb[c].val

\* C3 (as claimed): when the callback of Index.transaction completes normally,
\* exactly one commit request is posted and, when that commit succeeds, the
\* helper resolves with the value the callback returned.
C3_CommitOnceAndReturn ==
  \A c \in Callers :
    (HelperDone(c) /\ cb[c].kind = "returned") =>
      LET rs == RespsOfCall(outcome[c].call, "commit")
      IN /\ Len(ReqsOfCall(outcome[c].call, "commit")) = 1
         /\ (Len(rs) = 1 /\ rs[1].ok) =>
              (outcome[c].kind = "returned" /\ outcome[c].val = cb[c].val)

\* ---- the life of a Transaction object as the log tells it
OkResp(p, t, ops) ==
  log[p].type = "resp" /\ log[p].txn = t /\ log[p].op \in ops /\ log[p].ok
FailedResp(p, t, ops) ==
  log[p].type = "resp" /\ log[p].txn = t /\ log[p].op \in ops /\ ~log[p].ok
ReqOn(p, t) == log[p].type = "req" /\ log[p].txn = t
Closing == {"commit", "abort"}
\* before log position p, Transaction t was closed by a successful commit or
\* abort and no create has succeeded for it since
ClosedBefore(p, t) ==
  \E j \in 1..(p - 1) :
    /\ OkResp(j, t, Closing)
    /\ \A m \in (j + 1)..(p - 1) : ~OkResp(m, t, {"create"})
ClosedNow(t) == ClosedBefore(Len(log) + 1, t)
Txns == DOMAIN transactionId

\* caller c calls commit or abort in this step
CallsCommit(c) ==
  /\ inv'[c] # inv[c]
  /\ ctx'[c] = "helper_commit" \/ (ctx'[c] = "manual" /\ op'[c] = "commit")
CallsAbort(c) ==
  /\ inv'[c] # inv[c]
  /\ ctx'[c] = "helper_abort" \/ (ctx'[c] = "manual" /\ op'[c] = "abort")
\* caller c gets, in this step, an answer the server gave to op with a
\* status that is not a success
GetsFailure(c, w, o) ==
  /\ pc[c] = w
  /\ Len(log') = Len(log) + 1
  /\ log'[Len(log')].type = "resp" /\ log'[Len(log')].op = o /\ ~log'[Len(log')].ok

\* C4 (as claimed): CLOSED is terminal: once a commit or abort of a
\* Transaction has succeeded, no call on it posts a request, and every call
\* on it fails.
C4_ClosedIsTerminal ==
  /\ \A p \in Positions : \A j \in 1..(p - 1) :
       OkResp(j, log[j].txn, Closing) => ~ReqOn(p, log[j].txn)
  /\ \A c \in Callers :
       (pc[c] = "settled" /\ \E j \in Positions :
           OkResp(j, txn[c], Closing) /\ log[j].inv < inv[c])
         => settled[c].kind = "threw"

\* C4 (amended): while a Transaction is closed, a call of commit or abort
\* throws the no-active-transaction error and posts nothing, but upsert is
\* accepted: of an empty sequence it returns without a request, of a non-empty
\* one it posts a create request, which opens a new server transaction.
C4_ClosedAcceptsOnlyUpsert ==
  [][\A c \in Callers :
       ClosedNow(txn[c]) =>
         /\ (CallsCommit(c) \/ CallsAbort(c)) =>
              /\ settled'[c].kind = "threw"
              /\ settled'[c].val \in {ErrNoActiveCommit, ErrNoActiveAbort}
              /\ log' = log
              /\ transactionId' = transactionId
         /\ (pc[c] = "upsert" /\ pc'[c] # "upsert") =>
              IF Len(vectors[c]) = 0
              THEN log' = log /\ settled'[c] = Returned(This)
              ELSE /\ Len(log') = Len(log) + 1
                   /\ IsReq(Len(log), "create")'
                   /\ log'[Len(log')].txn = txn[c]]_vars

\* C4 witness: a create request was posted for a Transaction after a commit or
\* abort of it had succeeded
C4_Witness ==
  \E p \in Positions : \E j \in 1..(p - 1) :
    OkResp(j, log[j].txn, Closing) /\ ReqOn(p, log[j].txn) /\ log[p].op = "create"

\* the first log entry of method invocation k
FirstPos(k) == CHOOSE p \in Positions : log[p].inv = k /\ \A q \in 1..(p - 1) : log[q].inv # k

\* C5: after a successful commit or abort the id of the Transaction is null,
\* and an upsert that then posts anything posts exactly one create request,
\* first, and every batch under the id that create returned, an id that no
\* earlier request or response carried.
C5_ReopenUnderNewId ==
  /\ \A t \in Txns : ClosedNow(t) => transactionId[t] = Null
  /\ \A f \in Positions :
       LET k == log[f].inv
       IN (f = FirstPos(k) /\ ClosedBefore(f, log[f].txn)) =>
            /\ IsReq(f, "create")
            /\ Len(ReqsOfInv(k, "create")) = 1
            /\ \A p \in Positions :
                 (IsReq(p, "upsert") /\ log[p].inv = k) =>
                   /\ IsResp(f + 1, "create") /\ log[f + 1].ok
                   /\ log[p].id = log[f + 1].id
                   /\ \A q \in 1..(f - 1) : log[q].id # log[p].id

\* C5 witness: an upsert on a closed Transaction has posted a batch
C5_Witness ==
  \E p \in Positions :
    /\ IsReq(p, "upsert")
    /\ ClosedBefore(FirstPos(log[p].inv), log[p].txn)

\* C6: commit or abort called while the Transaction has no id throws its
\* no-active-transaction error at once, posts nothing and leaves the id null.
C6_NoIdNoRequest ==
  [][\A c \in Callers :
       transactionId[txn[c]] = Null =>
         /\ CallsCommit(c) =>
              /\ pc'[c] = "settled" /\ settled'[c] = Threw(ErrNoActiveCommit)
              /\ log' = log /\ transactionId' = transactionId
         /\ CallsAbort(c) =>
              /\ pc'[c] = "settled" /\ settled'[c] = Threw(ErrNoActiveAbort)
              /\ log' = log /\ transactionId' = transactionId]_vars

\* C6 witness: commit has thrown on a Transaction that was closed before
C6_Witness ==
  \E c \in Callers :
    /\ pc[c] = "settled"
    /\ settled[c] = Threw(ErrNoActiveCommit)
    /\ ClosedNow(txn[c])

\* C7: every upsert request carries a non-null id, the one the latest
\* successful create of its Transaction returned, no commit or abort of that
\* Transaction having succeeded since; and while a batch is in flight the
\* Transaction holds that id.
C7_BatchUnderIssuedId ==
  /\ \A p \in Positions :
       IsReq(p, "upsert") =>
         /\ log[p].id # Null
         /\ \E j \in 1..(p - 1) :
              /\ OkResp(j, log[p].txn, {"create"})
              /\ log[j].id = log[p].id
              /\ \A m \in (j + 1)..(p - 1) : ~OkResp(m, log[p].txn, {"create"} \cup Closing)
  /\ \A c \in Callers :
       pc[c] = "upsert_wait" =>
         (transactionId[txn[c]] # Null /\ transactionId[txn[c]] = InFlight(c).id)

\* C7 witness: a batch was posted under the second id the server issued
C7_Witness == \E p \in Positions : IsReq(p, "upsert") /\ log[p].id = 2

\* C8: between two create requests of one Transaction a create has failed or
\* a commit or abort has succeeded: while the Transaction holds an id no create
\* request is posted, however many batches and upsert calls follow.
C8_OneCreateWhileOpen ==
  /\ \A p \in Positions :
       IsReq(p, "create") =>
         \A q \in (p + 1)..Len(log) :
           (IsReq(q, "create") /\ log[p].txn = log[q].txn) =>
             \E m \in (p + 1)..(q - 1) :
               \/ FailedResp(m, log[p].txn, {"create"})
               \/ OkResp(m, log[p].txn, Closing)
  /\ \A c \in Callers :
       pc[c] = "create_wait" => transactionId[txn[c]] = Null

\* C8 witness: two upsert calls have posted batches under the same id, the
\* first of them batches of its own
C8_Witness ==
  \E p \in Positions : \E q \in (p + 1)..Len(log) :
    /\ IsReq(p, "upsert") /\ IsReq(q, "upsert")
    /\ log[p].inv # log[q].inv
    /\ log[p].txn = log[q].txn /\ log[p].id = log[q].id
    /\ Len(ReqsOfInv(log[p].inv, "upsert")) = 2

\* C9: when commit (abort) gets a status that is not 200/204 it throws the
\* commit (abort) error and the Transaction keeps the id the request carried;
\* the next request of that Transaction is no create and carries the same id.
C9_FailedCloseKeepsId ==
  [][/\ \A c \in Callers :
          /\ GetsFailure(c, "commit_wait", "commit") =>
               /\ pc'[c] = "settled" /\ settled'[c] = Threw(ErrCommit)
               /\ transactionId' = transactionId
               /\ transactionId[txn[c]] # Null
               /\ transactionId[txn[c]] = InFlight(c).id
          /\ GetsFailure(c, "abort_wait", "abort") =>
               /\ pc'[c] = "settled" /\ settled'[c] = Threw(ErrAbort)
               /\ transactionId' = transactionId
               /\ transactionId[txn[c]] # Null
               /\ transactionId[txn[c]] = InFlight(c).id
     /\ (Len(log') > Len(log) /\ log'[Len(log')].type = "req") =>
          LET e == log'[Len(log')]
          IN \A j \in Positions :
               (FailedResp(j, e.txn, Closing) /\ \A m \in (j + 1)..Len(log) : ~ReqOn(m, e.txn))
                 => (e.op # "create" /\ e.id = log[j].id)]_vars

\* C9 witness: after a commit that failed, a request under the same id
C9_Witness ==
  \E p \in Positions : \E j \in 1..(p - 1) :
    /\ FailedResp(j, log[p].txn, {"commit"})
    /\ ReqOn(p, log[p].txn) /\ log[p].id = log[j].id

\* C10: when a batch gets a status that is not 200/204 upsert throws the
\* upsert error at once and the Transaction keeps its id; that call posts
\* nothing after it, and an upsert call posts only create and upsert requests.
C10_FailedBatchStopsUpsert ==
  [][/\ \A c \in Callers :
          GetsFailure(c, "upsert_wait", "upsert") =>
            /\ pc'[c] = "settled" /\ settled'[c] = Threw(ErrUpsert)
            /\ transactionId' = transactionId
            /\ transactionId[txn[c]] # Null
            /\ transactionId[txn[c]] = InFlight(c).id
     /\ \A j \in 1..Len(log') :
          (log'[j].type = "resp" /\ log'[j].op = "upsert" /\ ~log'[j].ok) =>
            \A p \in 1..Len(log') :
              log'[p].inv = log'[j].inv =>
                (p <= j /\ log'[p].op \in {"create", "upsert"})]_vars

\* C10 witness: the second batch of an upsert call failed and the Transaction
\* still holds the id
C10_Witness ==
  \E c \in Callers : \E j \in Positions :
    /\ FailedResp(j, txn[c], {"upsert"})
    /\ Len(ReqsOfInv(log[j].inv, "upsert")) = 2
    /\ pc[c] = "settled" /\ inv[c] = log[j].inv
    /\ transactionId[txn[c]] = log[j].id

\* C11: when create gets a status that is not 200/201, upsert throws the
\* creation error and the Transaction stays without an id; that upsert call has
\* posted no batch and posts nothing more, and the next request of the
\* Transaction is a new create request.
C11_FailedCreateStaysUnopened ==
  [][/\ \A c \in Callers :
          GetsFailure(c, "create_wait", "create") =>
            /\ pc'[c] = "settled" /\ settled'[c] = Threw(ErrCreate)
            /\ transactionId' = transactionId
            /\ transactionId[txn[c]] = Null
     /\ \A j \in 1..Len(log') :
          (log'[j].type = "resp" /\ log'[j].op = "create" /\ ~log'[j].ok) =>
            \A p \in 1..Len(log') :
              log'[p].inv = log'[j].inv => (p <= j /\ log'[p].op = "create")
     /\ (Len(log') > Len(log) /\ log'[Len(log) + 1].type = "req") =>
          LET e == log'[Len(log) + 1]
          IN \A j \in Positions :
               (FailedResp(j, e.txn, {"create"}) /\ \A m \in (j + 1)..Len(log) : ~ReqOn(m, e.txn))
                 => (e.op = "create" /\ e.id = Null /\ e.inv # log[j].inv)]_vars

\* C11 witness: after a create that failed, a later upsert call has posted a
\* create request of its own for the same Transaction
C11_Witness ==
  \E p \in Positions : \E j \in 1..(p - 1) :
    /\ FailedResp(j, log[p].txn, {"create"})
    /\ IsReq(p, "create") /\ log[p].inv # log[j].inv

\* the abort the catch block of Index.transaction called for caller c has
\* failed: it threw without a request, or its request was refused
CleanupAbortFailed(c) ==
  LET rs == RespsOfCall(outcome[c].call, "abort")
  IN \/ Len(ReqsOfCall(outcome[c].call, "abort")) = 0
     \/ Len(rs) > 0 /\ ~rs[Len(rs)].ok

\* C12 (as claimed): when the callback of Index.transaction throws and the
\* abort of the cleanup fails, by a refused request or for want of an active
\* transaction, the abort failure is swallowed and the helper rejects with the
\* error the callback threw.
C12_AbortFailureSwallowed ==
  \A c \in Callers :
    (HelperDone(c) /\ cb[c].kind = "threw" /\ CleanupAbortFailed(c)) =>
      (outcome[c].kind = "threw" /\ outcome[c].val = cb[c].val)

\* the log entries this step appends
NewPositions == (Len(log) + 1)..Len(log')

\* C16: within one upsert call the batches are posted one at a time: when a
\* batch request is posted, every request that call posted before (its create,
\* its earlier batches) has got its response, with a status the code accepts,
\* so the call never has more than one request outstanding.
C16_OneBatchAtATime ==
  [][\A p \in NewPositions :
       (log'[p].type = "req" /\ log'[p].op = "upsert") =>
         /\ \A q \in 1..(p - 1) :
              (log'[q].type = "req" /\ log'[q].inv = log'[p].inv) =>
                \E m \in (q + 1)..(p - 1) :
                  /\ log'[m].type = "resp" /\ log'[m].inv = log'[p].inv
                  /\ log'[m].op = log'[q].op /\ log'[m].ok
                  /\ \A r \in (q + 1)..(m - 1) : log'[r].inv # log'[p].inv
         /\ \A q \in 1..(p - 1) :
              (log'[q].type = "resp" /\ log'[q].inv = log'[p].inv) => log'[q].ok]_vars

\* C16 witness: the second batch of an upsert call was posted right after the
\* response that accepted the first
C16_Witness ==
  \E p \in Positions :
    /\ p > 2
    /\ IsReq(p, "upsert") /\ IsResp(p - 1, "upsert") /\ IsReq(p - 2, "upsert")
    /\ log[p - 1].ok
    /\ log[p].inv = log[p - 2].inv

\* C18: in Index.transaction, when the callback completes normally and the
\* commit request is refused, exactly one abort request is posted, under the
\* id the commit carried; if that abort succeeds the helper rejects with the
\* commit error and the Transaction is left without an id. And the helper
\* never completes, once a create gave its Transaction an id, without having
\* posted a commit or abort request under that id.
C18_CommitFailureAborts ==
  \A c \in Callers :
    HelperDone(c) =>
      LET k == outcome[c].call
          as == ReqsOfCall(k, "abort")
          ar == RespsOfCall(k, "abort")
      IN /\ \A j \in Positions :
              (cb[c].kind = "returned" /\ log[j].call = k
                 /\ FailedResp(j, log[j].txn, {"commit"})) =>
                /\ Len(as) = 1
                /\ as[1].id = log[j].id /\ as[1].txn = log[j].txn
                /\ (Len(ar) = 1 /\ ar[1].ok) =>
                     /\ outcome[c].kind = "threw" /\ outcome[c].val = ErrCommit
                     /\ transactionId[log[j].txn] = Null
         /\ \A j \in Positions :
              (log[j].call = k /\ OkResp(j, log[j].txn, {"create"})) =>
                \E p \in (j + 1)..Len(log) :
                  /\ log[p].type = "req" /\ log[p].op \in Closing
                  /\ log[p].call = k /\ log[p].id = log[j].id

\* C18 witness: the helper has rejected with the commit error after one abort
\* request that succeeded
C18_Witness ==
  \E c \in Callers :
    /\ HelperDone(c)
    /\ cb[c].kind = "returned"
    /\ outcome[c].val = ErrCommit
    /\ Len(RespsOfCall(outcome[c].call, "abort")) = 1
    /\ RespsOfCall(outcome[c].call, "abort")[1].ok

\* C19: once a commit or abort request under an id has got a success
\* response, no later request carries that id, so no id is successfully
\* committed or aborted twice.
C19_FinalizedIdNotReused ==
  [][\A p \in NewPositions :
       \A j \in 1..(p - 1) :
         (log'[j].type = "resp" /\ log'[j].op \in Closing /\ log'[j].ok) =>
           /\ (log'[p].type = "req" /\ log'[p].op # "create") => log'[p].id # log'[j].id
           /\ (log'[p].type = "resp" /\ log'[p].ok) => log'[p].id # log'[j].id]_vars

\* C19 witness: after a commit or abort has succeeded, a batch was posted for
\* the same Transaction under another id
C19_Witness ==
  \E p \in Positions : \E j \in 1..(p - 1) :
    /\ OkResp(j, log[p].txn, Closing)
    /\ IsReq(p, "upsert") /\ log[p].id # log[j].id

\* ---- the client as the log tells it
\* the successful logins before log position p, and the token of the last
OkLogins(p) == {j \in 1..(p - 1) : IsResp(j, "login") /\ log[j].ok}
LastToken(p) == log[CHOOSE j \in OkLogins(p) : \A m \in OkLogins(p) : m <= j].data
\* the headers h are those of a moment at which the logins before p had succeeded
HeadersAsOf(h, p) ==
  /\ "Content-type" \in DOMAIN h /\ h["Content-type"] = "application/json"
  /\ OkLogins(p) = {} => "Authorization" \notin DOMAIN h
  /\ OkLogins(p) # {} =>
       ("Authorization" \in DOMAIN h /\ h["Authorization"] = Bearer(LastToken(p)))

\* C13: getHeaders always has Content-type: application/json; before a login
\* has succeeded it has no Authorization, and after one it has Authorization:
\* Bearer <token> with the token of the latest successful login. So has every
\* request posted.
C13_HeadersFollowLogin ==
  /\ HeadersAsOf(getHeaders(token), Len(log) + 1)
  /\ \A p \in Positions : log[p].type = "req" => HeadersAsOf(log[p].headers, p)

\* C13 witness: after two successful logins a request other than login was
\* posted with the token of the second
C13_Witness ==
  \E p \in Positions : \E j \in OkLogins(p) : \E m \in OkLogins(j) :
    /\ log[p].type = "req" /\ log[p].op # "login"
    /\ log[p].headers["Authorization"] = Bearer(log[j].data)
    /\ log[j].data # log[m].data

\* C14 (as claimed): ensureAuthenticated runs before the request of every
\* operation of Client, Collection, Index and Transaction, so no request other
\* than login is posted without a token.
C14_NoRequestWithoutToken ==
  \A p \in Positions :
    (log[p].type = "req" /\ log[p].op # "login") =>
      "Authorization" \in DOMAIN log[p].headers

\* C15 (as claimed): collection.index(distanceMetric) gets or creates: called
\* on a collection whose dense index exists already, it returns an Index
\* instead of failing.
C15_IndexGetsExisting ==
  \A c \in Callers :
    (pc[c] = "idle" /\ outcome[c].op = "index"
       /\ \E j \in Positions :
            IsResp(j, "createIndex") /\ log[j].ok /\ log[j].call < outcome[c].call)
      => outcome[c].kind = "returned"

\* C17: login stores a token only on a 200: the token changes only in a step
\* that receives a successful login response. On any other status the
\* operation that triggered the login throws the authentication error with the
\* token unchanged and posts no request, then or later: nothing is retried. A
\* Client operation called while there is no token posts a login request first.
C17_FailedLoginStopsOperation ==
  [][/\ token' # token =>
          /\ Len(log') > Len(log)
          /\ log'[Len(log) + 1].type = "resp" /\ log'[Len(log) + 1].op = "login"
          /\ log'[Len(log) + 1].ok
          /\ token' = log'[Len(log) + 1].data
     /\ \A c \in Callers :
          /\ GetsFailure(c, "login_wait", "login") =>
               /\ token' = token
               /\ pc'[c] = "idle"
               /\ outcome'[c].kind = "threw" /\ outcome'[c].val = ErrAuth
               /\ outcome'[c].call = call[c]
          /\ (call'[c] # call[c] /\ op'[c] \in ClientOps /\ ~Truthy(token)) =>
               /\ Len(log') = Len(log) + 1
               /\ log'[Len(log')].type = "req" /\ log'[Len(log')].op = "login"
     /\ \A j \in 1..Len(log') :
          (log'[j].type = "resp" /\ log'[j].op = "login" /\ ~log'[j].ok) =>
            \A p \in (j + 1)..Len(log') : log'[p].call # log'[j].call]_vars

\* C17 witness: after a login that failed, a later Client operation has posted
\* a login request of its own
C17_Witness ==
  \E c \in Callers : \E j \in Positions :
    /\ IsResp(j, "login") /\ ~log[j].ok
    /\ pc[c] = "login_wait" /\ op[c] \in ClientOps
    /\ log[j].call < call[c]
    /\ ~Truthy(token)

\* the create request at p was unanswered when the one at q was posted, for
\* the same Transaction by another call
Overlap(p, q) ==
  /\ p < q
  /\ IsReq(p, "create") /\ IsReq(q, "create")
  /\ log[p].txn = log[q].txn /\ log[p].inv # log[q].inv
  /\ \A m \in (p + 1)..(q - 1) : ~(log[m].type = "resp" /\ log[m].inv = log[p].inv)
\* the successful response to the create request at p
Answer(p) == {r \in Positions : IsResp(r, "create") /\ log[r].ok /\ log[r].inv = log[p].inv}

\* C20: when two upsert calls overlap on a Transaction without an id, each
\* posts a create; when both succeed the server has opened two transactions
\* with different ids, the Transaction holds the id of the response that came
\* last (until a later commit, abort or create changes it), and no commit or
\* abort request posted from then on carries the other id.
C20_OverlappingCreatesOrphanId ==
  \A p \in Positions : \A q \in (p + 1)..Len(log) :
    Overlap(p, q) =>
      \A rp \in Answer(p) : \A rq \in Answer(q) :
        LET last == IF rp < rq THEN rq ELSE rp
            first == IF rp < rq THEN rp ELSE rq
            t == log[p].txn
        IN /\ log[first].id # Null /\ log[last].id # Null
           /\ log[first].id # log[last].id
           /\ (\A m \in (last + 1)..Len(log) : ~OkResp(m, t, Closing \cup {"create"}))
                => transactionId[t] = log[last].id
           /\ \A m \in (last + 1)..Len(log) :
                (ReqOn(m, t) /\ log[m].op \in Closing) => log[m].id # log[first].id

\* C20 witness: two overlapping upserts have both created a transaction and a
\* commit request was posted afterwards, under the id that came last
C20_Witness ==
  \E p \in Positions : \E q \in (p + 1)..Len(log) :
    /\ Overlap(p, q)
    /\ \E rp \in Answer(p) : \E rq \in Answer(q) : \E m \in Positions :
         /\ m > rp /\ m > rq
         /\ IsReq(m, "commit")
         /\ log[m].id = (IF rp < rq THEN log[rq].id ELSE log[rp].id)

\* C21: Transaction objects do not interfere. A step changes the id of a
\* Transaction only by receiving the response to a create, commit or abort
\* request of that Transaction; and every upsert, commit or abort request
\* carries the id the latest successful create of its own Transaction
\* returned, never one returned to another Transaction.
C21_InstancesIndependent ==
  [][/\ \A t \in Txns :
          transactionId'[t] # transactionId[t] =>
            /\ Len(log') > Len(log)
            /\ log'[Len(log) + 1].type = "resp" /\ log'[Len(log) + 1].txn = t
            /\ log'[Len(log) + 1].op \in Closing \cup {"create"}
     /\ \A p \in NewPositions :
          (log'[p].type = "req" /\ log'[p].op # "create") =>
            /\ log'[p].id # Null
            /\ \E j \in 1..(p - 1) :
                 /\ log'[j].type = "resp" /\ log'[j].op = "create" /\ log'[j].ok
                 /\ log'[j].txn = log'[p].txn /\ log'[j].id = log'[p].id
            /\ \A j \in 1..(p - 1) :
                 (log'[j].type = "resp" /\ log'[j].op = "create" /\ log'[j].id = log'[p].id)
                   => log'[j].txn = log'[p].txn]_vars

\* C21 witness: both Transactions were opened, the commit of one has succeeded
\* and the other still holds the id its own create returned
C21_Witness ==
  \E t \in Txns : \E u \in Txns : \E j \in Positions : \E k \in Positions :
    /\ t # u
    /\ OkResp(j, t, {"commit"})
    /\ k < j /\ OkResp(k, u, {"create"})
    /\ transactionId[t] = Null
    /\ transactionId[u] = log[k].id

\* C22: the token is written only by login and never cleared: it changes
\* only in a step that receives a successful login response, to the non-empty
\* access token of that response, whatever Client, Collection, Index or
\* Transaction operation runs. And once there is a token, no operation posts a
\* login request, whatever statuses the requests before it got; only a call of
\* login() itself does.
C22_TokenWrittenOnlyByLogin ==
  [][/\ token' # token =>
          /\ Len(log') > Len(log)
          /\ log'[Len(log) + 1].type = "resp" /\ log'[Len(log) + 1].op = "login"
          /\ log'[Len(log) + 1].ok
          /\ token' = log'[Len(log) + 1].data
          /\ Truthy(token')
     /\ \A p \in NewPositions :
          (log'[p].type = "req" /\ log'[p].op = "login" /\ Truthy(token)) =>
            op'[log'[p].caller] = "login"]_vars

\* C22 witness: with a token stored, a request was refused and the next Client
\* operation has posted its own request at once
C22_Witness ==
  \E c \in Callers : \E j \in Positions :
    /\ Truthy(token)
    /\ log[j].type = "resp" /\ log[j].op # "login" /\ ~log[j].ok
    /\ OkLogins(j) # {}
    /\ pc[c] = "api_wait" /\ op[c] \in ClientOps
    /\ log[j].call < call[c]
    /\ log[Len(log)].type = "req" /\ log[Len(log)].call = call[c]
    /\ Len(ReqsOfCall(call[c], "login")) = 0

\* the login request at p was unanswered when the one at q was posted by
\* another call
LoginOverlap(p, q) ==
  /\ p < q
  /\ IsReq(p, "login") /\ IsReq(q, "login")
  /\ log[p].call # log[q].call
  /\ \A m \in (p + 1)..(q - 1) : ~(IsResp(m, "login") /\ log[m].call = log[p].call)

\* C23: with calls overlapping on one Client, the token is at every moment
\* the access token of the successful login response processed last (empty
\* before the first), and the request of every Client operation carries
\* Authorization: Bearer <token> with a token that a successful login response
\* before it issued.
C23_OverlappingLogins ==
  /\ token = (IF OkLogins(Len(log) + 1) = {} THEN NoToken ELSE LastToken(Len(log) + 1))
  /\ \A p \in Positions :
       (log[p].type = "req" /\ log[p].op \in ClientOps) =>
         /\ "Authorization" \in DOMAIN log[p].headers
         /\ \E j \in OkLogins(p) : log[p].headers["Authorization"] = Bearer(log[j].data)

\* C23 witness: two Client operations that found no token have both logged
\* in, the logins overlapping, both have posted their request, and the token
\* is the one issued last
C23_Witness ==
  \E p \in Positions : \E q \in (p + 1)..Len(log) :
    /\ LoginOverlap(p, q)
    /\ "Authorization" \notin DOMAIN log[p].headers
    /\ "Authorization" \notin DOMAIN log[q].headers
    /\ \E a \in Positions : \E b \in Positions :
         /\ log[a].type = "req" /\ log[a].op \in ClientOps /\ log[a].call = log[p].call
         /\ log[b].type = "req" /\ log[b].op \in ClientOps /\ log[b].call = log[q].call
         /\ log[a].headers # log[b].headers
    /\ token = LastToken(Len(log) + 1)

\* the success statuses of each operation as documented
Documented(o) ==
  CASE o \in {"login", "getCollection", "listCollections", "getInfo", "query",
              "fetchVector"} -> {200}
    [] o \in {"createCollection", "createIndex", "create"} -> {200, 201}
    [] o \in {"upsert", "commit", "abort"} -> {200, 204}
TxnOps == {"create", "upsert", "commit", "abort"}
\* the error an operation throws on a status it does not accept
ErrFor(o) ==
  CASE o = "login" -> ErrAuth
    [] o = "create" -> ErrCreate
    [] o = "upsert" -> ErrUpsert
    [] o = "commit" -> ErrCommit
    [] o = "abort" -> ErrAbort
    [] OTHER -> ErrOf(o)
\* after this step the call of caller c has thrown
HasThrown(c) ==
  \/ pc'[c] = "settled" /\ settled'[c].kind = "threw"
  \/ pc'[c] = "idle" /\ outcome'[c].kind = "threw" /\ outcome'[c].call = call[c]
HasThrownErr(c, e) ==
  \/ pc'[c] = "settled" /\ settled'[c] = Threw(e)
  \/ pc'[c] = "idle" /\ outcome'[c].kind = "threw" /\ outcome'[c].val = e
       /\ outcome'[c].call = call[c]

\* C24: an operation goes on when the response has one of its documented
\* success statuses (200 for login, get/list collection, getInfo, query,
\* fetch; 200 or 201 for create collection, create index, create transaction;
\* 200 or 204 for upsert batch, commit, abort); on any other status it throws
\* its own error and neither the token nor a transaction id changes.
C24_DocumentedStatusesOnly ==
  [][/\ \A o \in TxnOps : \A st \in Statuses : Succeeded(o, st) <=> st \in Documented(o)
     /\ \A o \in ({"login"} \cup ClientOps \cup CollectionOps \cup IndexOps) \ {"index"} :
          \A st \in Statuses \cup {Conflict} : Served(o, st) <=> st \in Documented(o)
     /\ (Len(log') > Len(log) /\ log'[Len(log) + 1].type = "resp") =>
          LET e == log'[Len(log) + 1]
          IN IF e.ok
             THEN ~HasThrown(e.caller)
             ELSE /\ HasThrownErr(e.caller, ErrFor(e.op))
                  /\ token' = token
                  /\ transactionId' = transactionId]_vars

\* C24 witness: with a token stored and a transaction open, listCollections
\* has thrown on a status that is not 200, and both are still there
C24_Witness ==
  \E c \in Callers :
    /\ pc[c] = "idle"
    /\ outcome[c].kind = "threw" /\ outcome[c].val = ErrOf("listCollections")
    /\ ~log[Len(log)].ok
    /\ Truthy(token)
    /\ transactionId[Own] # Null

====
